---- MODULE Spec2Model ----
(***************************************************************************)
(* Model of the sendbox2 reconciliation core: the virtual file tree of     *)
(* hooks/useFileSystem.ts and the sandbox client of hooks/useE2BSandbox.ts *)
(* (push, pull, replace, merge).                                           *)
(*                                                                         *)
(* Strings are TLA+ strings and paths are built by concatenation, as in    *)
(* the source.  A JavaScript optional field is a sequence: << >> is        *)
(* undefined, <<v>> is the value v.                                        *)
(***************************************************************************)
EXTENDS Integers, Sequences, FiniteSets, Bags, TLC

VARIABLES
  files,         \* useFileSystem: files (FileSystemItem[])
  activeFileId,  \* useFileSystem: activeFileId
  openFiles,     \* useFileSystem: openFiles
  creating,      \* createFile calls suspended at their await: ids still to be opened
  clock,         \* the last reading of Date.now() that went into an id
  syncCallbacks, \* useFileSystem: syncCallbacksRef.current is populated
  sandboxRef,    \* useE2BSandbox: sandboxRef.current is a live sandbox
  remote,        \* the sandbox's file system under /home/user
  shellCount,    \* number of out-of-band mutations of the remote so far
  lastOp,        \* the handler that ran last, with what it was given and what it saw
  pushPc,        \* syncLocalToSandbox: "idle", "running" or "done"
  pushFiles,     \* syncLocalToSandbox: its files argument
  pushIdx,       \* syncLocalToSandbox: index into sortedFiles of the next node
  pushCalls,     \* the remote calls syncLocalToSandbox has issued, with outcomes
  pushResult,    \* what syncLocalToSandbox returned
  isSyncing,     \* useE2BSandbox: state.isSyncing
  watching,      \* useE2BSandbox: watcherIntervalRef.current holds an interval
  lastFilesHash, \* useE2BSandbox: lastFilesHashRef.current, path -> fingerprint
  pulling,       \* handlePullFromSandbox calls in flight: the listing each has obtained
  autoSync,      \* Terminal: the autoSync state
  sessions,      \* Terminal: per session, the autoSync its output callback closed over
  timers,        \* the timeouts triggerSync has set and that have neither fired nor been cleared
  syncDebounceRef, \* Terminal: syncDebounceRef.current, 0 for null, else a timer's id
  timerCount,    \* timeouts set so far
  isInitializing, \* Terminal: the isInitializing state, 0 for null, else a session's number
  initTimer,     \* the 50 ms timeout of the isInitializing effect: 0, or the session it is for
  connects,      \* sandboxes created so far
  killing,       \* disconnectSandbox is awaiting sandbox.kill()
  checking,      \* checkForChanges runs in flight: the listing each has obtained
  listeners,     \* useE2BSandbox: fileChangeListenersRef.current
  reported,      \* the paths reported as created since the sandbox was connected
  walk,          \* a call of getFilePath at work: its arguments and its local variables
  activeTerminalId  \* Terminal: the session whose tab is shown, 0 for null

treeVars == <<files, activeFileId, openFiles, creating, clock>>
linkVars == <<syncCallbacks, sandboxRef>>
pushRun == <<pushPc, pushFiles, pushIdx, pushCalls, pushResult>>
pushVars == <<pushPc, pushFiles, pushIdx, pushCalls, pushResult, isSyncing>>
watchVars == <<watching, lastFilesHash>>
termVars == <<autoSync, sessions, timers, syncDebounceRef, timerCount>>
initVars == <<isInitializing, initTimer>>
pollVars == <<connects, killing, checking, listeners, reported>>
walkVars == <<walk>>
focusVars == <<activeTerminalId>>
sideVars == <<watchVars, termVars, pulling, initVars, pollVars, walkVars, focusVars>>
vars == <<files, activeFileId, openFiles, creating, clock, syncCallbacks,
          sandboxRef, remote, shellCount, lastOp,
          pushPc, pushFiles, pushIdx, pushCalls, pushResult, isSyncing,
          watching, lastFilesHash, pulling,
          autoSync, sessions, timers, syncDebounceRef, timerCount,
          isInitializing, initTimer, connects, killing, checking, listeners, reported,
          walk, activeTerminalId>>

----------------------------------------------------------------------------
(* Bounds of the model. *)

MaxClock == 2   \* readings of Date.now() per behaviour (createFile calls and pull passes)
MaxNodes == 4   \* nodes the local tree may hold (root included)
MaxShell == 1   \* out-of-band mutations of the remote file system
MaxInFlight == 1 \* handlePullFromSandbox calls awaiting their listing at one time
MaxTerminals == 2 \* terminal sessions per behaviour
MaxTimers == 3   \* timeouts triggerSync sets per behaviour
MaxConnects == 2 \* sandboxes created per behaviour
MaxChecks == 2   \* checkForChanges runs awaiting their listing at one time
MaxSubs == 2     \* callbacks subscribed to onFileChange at one time
MaxParts == 3    \* entries of pathParts the model keeps while getFilePath loops
TickMs == 500    \* the grain of time, in milliseconds

NameOrder == <<"index.ts", "src">>  \* the names in use, in the order a listing returns them
Names == {NameOrder[i] : i \in 1..Len(NameOrder)}
NestedNames == {"src/index.ts"}  \* a name typed with a slash in it
EditContents == {"a"}            \* buffers the editor hands to updateFileContent
ShellContents == {"new"}         \* contents written on the remote side

----------------------------------------------------------------------------
(* JavaScript values. *)

NULL == "null"
Undefined == << >>
Def(v) == <<v>>
IsDefined(o) == o # Undefined

Range(s) == {s[i] : i \in 1..Len(s)}

RECURSIVE Join(_, _)
\* Array.prototype.join
Join(parts, sep) ==
  IF Len(parts) = 0 THEN ""
  ELSE IF Len(parts) = 1 THEN parts[1]
  ELSE parts[1] \o sep \o Join(Tail(parts), sep)

\* Array.prototype.findIndex; 0 stands for -1
FindIndex(fileList, id) ==
  IF \E i \in 1..Len(fileList) : fileList[i].id = id
  THEN CHOOSE i \in 1..Len(fileList) :
         /\ fileList[i].id = id
         /\ \A j \in 1..(i - 1) : fileList[j].id # id
  ELSE 0

HasId(fileList, id) == FindIndex(fileList, id) # 0

\* Array.prototype.find, for an id that is present
Find(fileList, id) == fileList[FindIndex(fileList, id)]

\* Array.prototype.filter on ids
RemoveIds(s, ids) == SelectSeq(s, LAMBDA x : x \notin ids)

----------------------------------------------------------------------------
(* constants.ts *)

RootItem ==
  [id |-> "root", parentId |-> NULL, name |-> "root", type |-> "folder",
   content |-> Undefined, isOpen |-> Def(TRUE)]

INITIAL_FILES == <<RootItem>>

BasePath == "/home/user"

----------------------------------------------------------------------------
(* useFileSystem.ts: derived paths *)

RECURSIVE WalkParents(_, _, _)
\* the while loop of getFilePath, createFile and buildPath
WalkParents(currentParentId, pathParts, currentFiles) ==
  IF currentParentId # NULL /\ currentParentId # "root"
  THEN IF HasId(currentFiles, currentParentId)
       THEN LET parent == Find(currentFiles, currentParentId)
            IN WalkParents(parent.parentId, <<parent.name>> \o pathParts, currentFiles)
       ELSE pathParts
  ELSE pathParts

getFilePath(fileId, fileList) ==
  IF ~HasId(fileList, fileId) THEN ""
  ELSE LET file == Find(fileList, fileId)
       IN "/home/user/" \o Join(WalkParents(file.parentId, <<file.name>>, fileList), "/")

----------------------------------------------------------------------------
(* The sandbox's file system (the e2b files API), seen through the calls the *)
(* hooks make.  An entry is [parts, isDir, content]; parts are the names    *)
(* below /home/user.                                                        *)

RECURSIVE PartsUpTo(_)
PartsUpTo(n) ==
  IF n = 0 THEN {<< >>}
  ELSE LET shorter == PartsUpTo(n - 1)
       IN shorter \cup {Append(p, x) : p \in shorter, x \in Names}

PathStr(parts) == IF parts = << >> THEN BasePath ELSE BasePath \o "/" \o Join(parts, "/")

PathTable == {<<PathStr(p), p>> : p \in PartsUpTo(MaxNodes)}

IsRemotePath(path) == \E e \in PathTable : e[1] = path /\ e[2] # << >>

\* String.prototype.split('/') of the path below /home/user
ParsePath(path) == (CHOOSE e \in PathTable : e[1] = path)[2]

\* parts, without the slice
FrontWhole(s) == s

Front(s) == SubSeq(s, 1, Len(s) - 1)

IsPrefix(p, q) == Len(p) <= Len(q) /\ SubSeq(q, 1, Len(p)) = p

Ancestors(parts) == {SubSeq(parts, 1, n) : n \in 1..(Len(parts) - 1)}

EntryAt(r, parts) == CHOOSE e \in r : e.parts = parts
Exists(r, parts) == \E e \in r : e.parts = parts
IsDirAt(r, parts) == \E e \in r : e.parts = parts /\ e.isDir
IsFileAt(r, parts) == \E e \in r : e.parts = parts /\ ~e.isDir

DirEntry(parts) == [parts |-> parts, isDir |-> TRUE, content |-> ""]
FileEntry(parts, c) == [parts |-> parts, isDir |-> FALSE, content |-> c]

WithAncestors(r, parts) ==
  r \cup {DirEntry(a) : a \in {a \in Ancestors(parts) : ~Exists(r, a)}}

\* files.write: "ok" or "error"
WriteOutcome(r, path) ==
  IF ~IsRemotePath(path) THEN "error"
  ELSE LET parts == ParsePath(path)
       IN IF IsDirAt(r, parts) \/ \E a \in Ancestors(parts) : IsFileAt(r, a)
          THEN "error" ELSE "ok"

RemoteWrite(r, path, c) ==
  IF WriteOutcome(r, path) # "ok" THEN r
  ELSE LET parts == ParsePath(path)
       IN WithAncestors({e \in r : e.parts # parts}, parts) \cup {FileEntry(parts, c)}

\* files.makeDir: "ok", "exists" (rejected, the directory is there) or "error"
MakeDirOutcome(r, path) ==
  IF ~IsRemotePath(path) THEN "error"
  ELSE LET parts == ParsePath(path)
       IN IF IsDirAt(r, parts) THEN "exists"
          ELSE IF IsFileAt(r, parts) \/ \E a \in Ancestors(parts) : IsFileAt(r, a)
          THEN "error" ELSE "ok"

RemoteMakeDir(r, path) ==
  IF MakeDirOutcome(r, path) # "ok" THEN r
  ELSE LET parts == ParsePath(path)
       IN WithAncestors(r, parts) \cup {DirEntry(parts)}

\* files.remove
RemoteRemove(r, path) ==
  IF ~IsRemotePath(path) THEN r
  ELSE {e \in r : ~IsPrefix(ParsePath(path), e.parts)}

\* files.list: the entries directly below path, in listing order
RemoteList(r, path) ==
  LET dir == ParsePath(path)
      present == SelectSeq(NameOrder, LAMBDA n : Exists(r, Append(dir, n)))
  IN [i \in 1..Len(present) |->
        [name |-> present[i], type |-> IF IsDirAt(r, Append(dir, present[i])) THEN "dir" ELSE "file"]]

\* files.read
RemoteRead(r, path) == EntryAt(r, ParsePath(path)).content

----------------------------------------------------------------------------
(* useE2BSandbox.ts: the single-node calls handed to useFileSystem as       *)
(* syncCallbacks.  Each gives the remote file system after the call; ok is  *)
(* whether the transport delivered it.                                      *)

\* writeFile without its check of sandboxRef.current
writeFileUnguarded(r, path, c, ok) == IF ok THEN RemoteWrite(r, path, c) ELSE r

writeFile(r, path, c, ok) == IF sandboxRef /\ ok THEN RemoteWrite(r, path, c) ELSE r

makeDirectory(r, path, ok) == IF sandboxRef /\ ok THEN RemoteMakeDir(r, path) ELSE r

deleteFile(r, path, ok) == IF sandboxRef /\ ok THEN RemoteRemove(r, path) ELSE r

\* what each of them resolves to: false with no sandbox and when the remote call rejects
writeFileReturns(r, path, ok) == sandboxRef /\ ok /\ WriteOutcome(r, path) = "ok"

makeDirectoryReturns(r, path, ok) == sandboxRef /\ ok /\ MakeDirOutcome(r, path) = "ok"

deleteFileReturns(r, path, ok) == sandboxRef /\ ok

----------------------------------------------------------------------------
(* useFileSystem.ts: the operations on the tree *)

OtherOp == [op |-> "other"]

NodeIds == {files[i].id : i \in 1..Len(files)}
FolderIds == {files[i].id : i \in {j \in 1..Len(files) : files[j].type = "folder"}}
FileIds == {files[i].id : i \in {j \in 1..Len(files) : files[j].type = "file"}}

\* openFileById that leaves the tabs as they are
openFileByIdNoTab(open, id) == open

openFileById(open, id) == IF id \in Range(open) THEN open ELSE Append(open, id)

\* the reassignment that never finds a remaining tab
LastOrNullNever(s) == NULL

LastOrNull(s) == IF Len(s) > 0 THEN s[Len(s)] ELSE NULL

createFile(parentId, name, type) ==
  /\ clock < MaxClock
  /\ Len(files) < MaxNodes
  /\ LET newFile == [id |-> ToString(clock + 1), parentId |-> parentId, name |-> name,
                     type |-> type,
                     content |-> IF type = "file" THEN Def("") ELSE Undefined,
                     isOpen |-> IF type = "folder" THEN Def(TRUE) ELSE Undefined]
         currentFiles == Append(files, newFile)
         filePath == "/home/user/" \o Join(WalkParents(parentId, <<name>>, currentFiles), "/")
     IN /\ clock' = clock + 1
        /\ files' = currentFiles
        /\ IF type = "folder" /\ syncCallbacks
           THEN /\ \E ok \in BOOLEAN : remote' = makeDirectory(remote, filePath, ok)
                /\ UNCHANGED <<openFiles, activeFileId, creating>>
           ELSE IF type = "file" /\ syncCallbacks
           THEN /\ \E ok \in BOOLEAN : remote' = writeFile(remote, filePath, "", ok)
                /\ creating' = creating \cup {newFile.id}
                /\ UNCHANGED <<openFiles, activeFileId>>
           ELSE IF type = "file"
           THEN /\ openFiles' = openFileById(openFiles, newFile.id)
                /\ activeFileId' = newFile.id
                /\ UNCHANGED <<remote, creating>>
           ELSE UNCHANGED <<remote, openFiles, activeFileId, creating>>
  /\ lastOp' = OtherOp
  /\ UNCHANGED <<shellCount, linkVars, pushVars, sideVars>>

\* createFile after its await: openFileById(newFile.id)
createFileResume(id) ==
  /\ id \in creating
  /\ creating' = creating \ {id}
  /\ openFiles' = openFileById(openFiles, id)
  /\ activeFileId' = id
  /\ lastOp' = OtherOp
  /\ UNCHANGED <<files, clock, remote, shellCount, linkVars, pushVars, sideVars>>

\* the map of updateFileContent without its test of the id
SetContentOfAll(fileList, id, newContent) ==
  [i \in 1..Len(fileList) |-> [fileList[i] EXCEPT !.content = Def(newContent)]]

SetContent(fileList, id, newContent) ==
  [i \in 1..Len(fileList) |->
     IF fileList[i].id = id THEN [fileList[i] EXCEPT !.content = Def(newContent)]
     ELSE fileList[i]]

updateFileContent(id, newContent) ==
  /\ files' = SetContent(files, id, newContent)
  /\ IF HasId(files, id) /\ syncCallbacks /\ getFilePath(id, files) # ""
     THEN \E ok \in BOOLEAN : remote' = writeFile(remote, getFilePath(id, files), newContent, ok)
     ELSE UNCHANGED remote
  /\ lastOp' = [op |-> "updateFileContent", id |-> id, path |-> getFilePath(id, files),
                content |-> newContent, remote |-> remote',
                connected |-> sandboxRef,
                calls |-> IF HasId(files, id) /\ syncCallbacks /\ getFilePath(id, files) # ""
                             /\ sandboxRef
                          THEN <<[op |-> "write", path |-> getFilePath(id, files),
                                  content |-> newContent]>>
                          ELSE << >>,
                read |-> /\ pulling # << >>
                         /\ \A i \in 1..Len(pulling) : \E k \in 1..Len(pulling[i]) :
                              /\ pulling[i][k].path = getFilePath(id, files)
                              /\ ~pulling[i][k].isDir]
  /\ UNCHANGED <<openFiles, activeFileId, creating, clock, shellCount, linkVars, pushVars, sideVars>>

\* !f.isOpen
NotIsOpen(isOpen) == IF IsDefined(isOpen) THEN Def(~isOpen[1]) ELSE Def(TRUE)

toggleFolder(id) ==
  /\ files' = [i \in 1..Len(files) |->
                 IF files[i].id = id
                 THEN [files[i] EXCEPT !.isOpen = NotIsOpen(files[i].isOpen)]
                 ELSE files[i]]
  /\ lastOp' = OtherOp
  /\ UNCHANGED <<openFiles, activeFileId, creating, clock, remote, shellCount, linkVars, pushVars, sideVars>>

expandFolder(id) ==
  /\ files' = [i \in 1..Len(files) |->
                 IF files[i].id = id THEN [files[i] EXCEPT !.isOpen = Def(TRUE)]
                 ELSE files[i]]
  /\ lastOp' = OtherOp
  /\ UNCHANGED <<openFiles, activeFileId, creating, clock, remote, shellCount, linkVars, pushVars, sideVars>>

RECURSIVE getDescendants(_, _)
RECURSIVE DescendantsOf(_, _)
\* the for loop of getDescendants over children
DescendantsOf(children, fileList) ==
  IF children = << >> THEN << >>
  ELSE LET child == Head(children)
       IN <<child.id>>
          \o (IF child.type = "folder" THEN getDescendants(child.id, fileList) ELSE << >>)
          \o DescendantsOf(Tail(children), fileList)

getDescendants(parentId, fileList) ==
  DescendantsOf(SelectSeq(fileList, LAMBDA f : f.parentId = parentId), fileList)

\* idsToDelete without the descendants
idsToDeleteSelf(id, fileList) == {id}

idsToDelete(id, fileList) == Range(<<id>> \o getDescendants(id, fileList))

deleteFileItem(id) ==
  /\ HasId(files, id)
  /\ LET ids == idsToDelete(id, files)
         remainingOpen == RemoveIds(openFiles, ids)
     IN /\ openFiles' = remainingOpen
        /\ activeFileId' = IF activeFileId # NULL /\ activeFileId \in ids
                           THEN LastOrNull(remainingOpen)
                           ELSE activeFileId
        /\ files' = SelectSeq(files, LAMBDA f : f.id \notin ids)
        /\ lastOp' = [op |-> "deleteFileItem", id |-> id, files |-> files,
                      openFiles |-> openFiles, activeFileId |-> activeFileId]
  /\ IF syncCallbacks /\ getFilePath(id, files) # ""
     THEN \E ok \in BOOLEAN : remote' = deleteFile(remote, getFilePath(id, files), ok)
     ELSE UNCHANGED remote
  /\ UNCHANGED <<creating, clock, shellCount, linkVars, pushVars, sideVars>>

openFile(id) ==
  /\ openFiles' = openFileById(openFiles, id)
  /\ activeFileId' = id
  /\ lastOp' = OtherOp
  /\ UNCHANGED <<files, creating, clock, remote, shellCount, linkVars, pushVars, sideVars>>

closeFile(id) ==
  /\ LET newOpen == SelectSeq(openFiles, LAMBDA fid : fid # id)
     IN /\ openFiles' = newOpen
        /\ activeFileId' = IF activeFileId = id THEN LastOrNull(newOpen) ELSE activeFileId
  /\ lastOp' = OtherOp
  /\ UNCHANGED <<files, creating, clock, remote, shellCount, linkVars, pushVars, sideVars>>

setActiveFileId(id) ==
  /\ activeFileId' = id
  /\ lastOp' = OtherOp
  /\ UNCHANGED <<files, openFiles, creating, clock, remote, shellCount, linkVars, pushVars, sideVars>>

\* what handlePullFromSandbox does with a result of length 0: setSyncStatus('error')
\* and nothing else
EmptyPull(sandboxFiles) ==
  [op |-> "handlePullFromSandbox", returned |-> sandboxFiles, syncStatus |-> "error",
   files |-> files, openFiles |-> openFiles, activeFileId |-> activeFileId]

replaceWithSandboxFiles(newFiles) ==
  /\ files' = <<RootItem>> \o newFiles
  /\ openFiles' = << >>
  /\ activeFileId' = NULL
  /\ lastOp' = [op |-> "replaceWithSandboxFiles", files |-> files,
                openFiles |-> openFiles, activeFileId |-> activeFileId,
                edited |-> IF lastOp.op = "updateFileContent" THEN <<lastOp>> ELSE << >>]
  /\ UNCHANGED creating

RootStub ==
  [id |-> "root", parentId |-> NULL, name |-> "root", type |-> "folder",
   content |-> Undefined, isOpen |-> Undefined]

\* existingPaths.has(path) with the map never filled
ExistingHasNothing(prev, path) == FALSE

\* existingPaths.has(path)
ExistingHas(prev, path) == \E i \in 1..Len(prev) : getFilePath(prev[i].id, prev) = path

\* existingPaths.get(path): the id set last for that path
ExistingGet(prev, path) ==
  LET last == CHOOSE i \in 1..Len(prev) :
                /\ getFilePath(prev[i].id, prev) = path
                /\ \A j \in (i + 1)..Len(prev) : getFilePath(prev[j].id, prev) # path
  IN prev[last].id

RECURSIVE MergeLoop(_, _, _, _)
\* the for loop of mergeWithSandboxFiles, from sandbox[k] on
MergeLoop(prev, sandbox, k, newFiles) ==
  IF k > Len(sandbox) THEN newFiles
  ELSE LET sandboxFile == sandbox[k]
           sandboxPath == getFilePath(sandboxFile.id, <<RootStub>> \o sandbox)
       IN IF ~ExistingHas(prev, sandboxPath)
          THEN MergeLoop(prev, sandbox, k + 1, Append(newFiles, sandboxFile))
          ELSE LET idx == FindIndex(newFiles, ExistingGet(prev, sandboxPath))
               IN IF sandboxFile.type = "file" /\ idx # 0 /\ IsDefined(sandboxFile.content)
                  THEN MergeLoop(prev, sandbox, k + 1,
                                 [newFiles EXCEPT ![idx].content = sandboxFile.content])
                  ELSE MergeLoop(prev, sandbox, k + 1, newFiles)

mergeWithSandboxFiles(sandbox) ==
  /\ files' = MergeLoop(files, sandbox, 1, files)
  /\ Len(files') <= MaxNodes
  /\ lastOp' = [op |-> "mergeWithSandboxFiles", files |-> files, sandboxFiles |-> sandbox,
                again |-> (lastOp.op = "mergeWithSandboxFiles"
                           /\ lastOp.sandboxFiles = sandbox)]
  /\ UNCHANGED <<openFiles, activeFileId, creating>>

----------------------------------------------------------------------------
(* useE2BSandbox.ts: pull *)

RECURSIVE listAllFiles(_, _, _, _)
RECURSIVE ListEntries(_, _, _, _, _)
\* the for loop of listAllFiles over the entries files.list returned
ListEntries(r, path, entries, result, failing) ==
  IF entries = << >> THEN result
  ELSE LET file == Head(entries)
           fullPath == path \o "/" \o file.name
       IN IF file.type = "dir"
          THEN ListEntries(r, path, Tail(entries),
                 listAllFiles(r, fullPath,
                   Append(result, [path |-> fullPath, isDir |-> TRUE, content |-> Undefined]),
                   failing),
                 failing)
          ELSE ListEntries(r, path, Tail(entries),
                 Append(result, [path |-> fullPath, isDir |-> FALSE,
                                 content |-> IF fullPath \in failing THEN Undefined
                                             ELSE Def(RemoteRead(r, fullPath))]),
                 failing)

\* failing: the paths for which files.list (a directory) or files.read (a file) rejects;
\* the catch of a listing returns what was gathered, the catch of a read keeps the entry
\* without content
listAllFiles(r, path, result, failing) ==
  IF path \in failing THEN result
  ELSE ListEntries(r, path, RemoteList(r, path), result, failing)

\* the paths a listing of the remote asks for, each of which may reject
ListedPaths(r) == {BasePath} \cup {PathStr(e.parts) : e \in {x \in r : x.isDir}}

\* the paths it reads, each of which may reject
ReadPaths(r) == {PathStr(e.parts) : e \in {x \in r : ~x.isDir}}

\* `e2b-${Date.now()}`, without the random suffix
SyntheticIdOfPass(pass, k) == "e2b-" \o ToString(pass)

\* `e2b-${Date.now()}-${Math.random()...}`: pass stands for the clock reading of
\* the pass, k for the random suffix of its k-th entry
SyntheticId(pass, k) == "e2b-" \o ToString(pass) \o "-" \o ToString(k)

\* file.content, without the || ''
ContentAsRead(content) == content

\* file.content || ''
ContentOrEmpty(content) == IF IsDefined(content) /\ content[1] # "" THEN content ELSE Def("")

RECURSIVE BuildItems(_, _, _, _, _)
\* the for loop of syncSandboxToLocal, from allFiles[k] on
BuildItems(allFiles, pass, k, pathToIdMap, newFiles) ==
  IF k > Len(allFiles) THEN newFiles
  ELSE LET file == allFiles[k]
           parts == ParsePath(file.path)
           fileName == parts[Len(parts)]
           parentPath == IF Len(parts) > 1
                         THEN BasePath \o "/" \o Join(Front(parts), "/")
                         ELSE BasePath
           parentId == IF parentPath \in DOMAIN pathToIdMap
                       THEN pathToIdMap[parentPath] ELSE "root"
           id == SyntheticId(pass, k)
           newFile == [id |-> id, parentId |-> parentId, name |-> fileName,
                       type |-> IF file.isDir THEN "folder" ELSE "file",
                       content |-> IF file.isDir THEN Undefined ELSE ContentOrEmpty(file.content),
                       isOpen |-> IF file.isDir THEN Def(TRUE) ELSE Undefined]
       IN BuildItems(allFiles, pass, k + 1, (file.path :> id) @@ pathToIdMap,
                     Append(newFiles, newFile))

PulledItems(r, pass, failing) ==
  BuildItems(listAllFiles(r, BasePath, << >>, failing), pass, 1, (BasePath :> "root"), << >>)

\* what syncSandboxToLocal returns, its listing taken as one snapshot of the remote
syncSandboxToLocal(r, pass, failing) ==
  IF ~sandboxRef THEN << >> ELSE PulledItems(r, pass, failing)

----------------------------------------------------------------------------
(* App.tsx: handlePullFromSandbox, and a caller of mergeWithSandboxFiles.   *)
(* The repository never calls mergeWithSandboxFiles; its caller here does   *)
(* what handlePullFromSandbox does with replaceWithSandboxFiles, and may    *)
(* hand the same array to the merge once more.                              *)

\* the body of handlePullFromSandbox, with failing the calls the sandbox rejects
pullWith(failing) ==
  LET sandboxFiles == syncSandboxToLocal(remote, clock + 1, failing)
  IN IF Len(sandboxFiles) > 0
     THEN replaceWithSandboxFiles(sandboxFiles)
     ELSE /\ lastOp' = EmptyPull(sandboxFiles)
          /\ UNCHANGED <<files, openFiles, activeFileId, creating>>

\* a pull all of whose calls succeed
pullBack ==
  /\ sandboxRef
  /\ clock < MaxClock
  /\ pullWith({})
  /\ clock' = clock + 1
  /\ isSyncing' = FALSE
  /\ UNCHANGED <<remote, shellCount, linkVars, pushRun, sideVars>>

\* a pull that hands whatever it got to replaceWithSandboxFiles
handlePullFromSandboxAlways ==
  /\ sandboxRef => clock < MaxClock
  /\ \E failing \in SUBSET (ListedPaths(remote) \cup ReadPaths(remote)) :
       replaceWithSandboxFiles(syncSandboxToLocal(remote, clock + 1, failing))
  /\ clock' = IF sandboxRef THEN clock + 1 ELSE clock
  /\ isSyncing' = IF sandboxRef THEN FALSE ELSE isSyncing
  /\ UNCHANGED <<remote, shellCount, linkVars, pushRun, sideVars>>

handlePullFromSandbox ==
  /\ sandboxRef => clock < MaxClock
  /\ \E failing \in SUBSET (ListedPaths(remote) \cup ReadPaths(remote)) :
       pullWith(failing)
  /\ clock' = IF sandboxRef THEN clock + 1 ELSE clock
  /\ isSyncing' = IF sandboxRef THEN FALSE ELSE isSyncing
  /\ UNCHANGED <<remote, shellCount, linkVars, pushRun, sideVars>>

pullAndMerge ==
  /\ sandboxRef
  /\ clock < MaxClock
  /\ \E failing \in SUBSET ListedPaths(remote) :
       mergeWithSandboxFiles(syncSandboxToLocal(remote, clock + 1, failing))
  /\ clock' = clock + 1
  /\ isSyncing' = FALSE
  /\ UNCHANGED <<remote, shellCount, linkVars, pushRun, sideVars>>

mergeAgain ==
  /\ lastOp.op = "mergeWithSandboxFiles"
  /\ mergeWithSandboxFiles(lastOp.sandboxFiles)
  /\ UNCHANGED <<clock, remote, shellCount, linkVars, pushVars, sideVars>>

----------------------------------------------------------------------------
(* handlePullFromSandbox in two steps: up to the moment syncSandboxToLocal has *)
(* its listing, and from there to the end. Other handlers run in between.      *)

\* a pull that starts only while no operation has set the syncing flag
PullBeginExclusive ==
  /\ sandboxRef
  /\ ~isSyncing
  /\ Len(pulling) < MaxInFlight
  /\ \E failing \in SUBSET ListedPaths(remote) :
       pulling' = Append(pulling, listAllFiles(remote, BasePath, << >>, failing))
  /\ isSyncing' = TRUE
  /\ lastOp' = OtherOp
  /\ UNCHANGED <<treeVars, linkVars, pushRun, remote, shellCount, walkVars, focusVars,
                 watchVars, pollVars>>

\* onCommandComplete and the sync button of the Terminal run this whatever isSyncing
\* is; syncSandboxToLocal sets isSyncing before its listing
PullBegin ==
  /\ sandboxRef
  /\ Len(pulling) < MaxInFlight
  /\ \E failing \in SUBSET ListedPaths(remote) :
       pulling' = Append(pulling, listAllFiles(remote, BasePath, << >>, failing))
  /\ isSyncing' = TRUE
  /\ lastOp' = OtherOp
  /\ UNCHANGED <<treeVars, linkVars, pushRun, remote, shellCount, walkVars, focusVars,
                 watchVars, pollVars>>

handlePullBegin == PullBegin /\ UNCHANGED <<termVars, initVars>>

handlePullEnd(i) ==
  /\ pulling[i] # << >> => clock < MaxClock
  /\ LET sandboxFiles == BuildItems(pulling[i], clock + 1, 1, (BasePath :> "root"), << >>)
     IN IF Len(sandboxFiles) > 0
        THEN /\ replaceWithSandboxFiles(sandboxFiles)
             /\ clock' = clock + 1
        ELSE /\ lastOp' = EmptyPull(sandboxFiles)
             /\ UNCHANGED <<files, openFiles, activeFileId, creating, clock>>
  /\ pulling' = [k \in 1..(Len(pulling) - 1) |-> IF k < i THEN pulling[k] ELSE pulling[k + 1]]
  /\ isSyncing' = FALSE
  /\ UNCHANGED <<linkVars, pushRun, remote, shellCount, walkVars, focusVars, watchVars,
                 termVars, initVars, pollVars>>

PullEnd == \E i \in 1..Len(pulling) : handlePullEnd(i)

----------------------------------------------------------------------------
(* The environment: connecting, and the shell changing the remote tree *)

\* startFileWatcher up to its first check, which runs as the first tick
startFileWatcher ==
  /\ watching' = TRUE
  /\ UNCHANGED lastFilesHash

\* onFileChange(callback)
onFileChange(subs, callback) == Append(subs, callback)

\* the function onFileChange returns
unsubscribe(subs, callback) == SelectSeq(subs, LAMBDA cb : cb # callback)

\* createSandbox, and the effects of App that run once isConnected is true:
\* setSyncCallbacks and the subscription to onFileChange
createSandbox ==
  /\ ~sandboxRef
  /\ connects < MaxConnects
  /\ connects' = connects + 1
  /\ sandboxRef' = TRUE
  /\ syncCallbacks' = TRUE
  /\ remote' = {}
  /\ startFileWatcher
  /\ listeners' = onFileChange(listeners, "app")
  /\ reported' = {}
  /\ lastOp' = [op |-> "createSandbox"]
  /\ UNCHANGED <<treeVars, shellCount, walkVars, focusVars, pushVars, termVars, pulling, initVars, killing, checking>>

ShellPaths == {<<"src">>, <<"src", "index.ts">>, <<"index.ts">>}

ShellStep(r) ==
  /\ sandboxRef
  /\ shellCount < MaxShell
  /\ r # remote
  /\ remote' = r
  /\ shellCount' = shellCount + 1
  /\ lastOp' = OtherOp
  /\ UNCHANGED <<treeVars, linkVars, pushVars, sideVars>>

ShellWrite(parts, c) == ShellStep(RemoteWrite(remote, PathStr(parts), c))

ShellMkdir(parts) == ShellStep(RemoteMakeDir(remote, PathStr(parts)))

ShellRemove(parts) == ShellStep(RemoteRemove(remote, PathStr(parts)))

----------------------------------------------------------------------------
(* The specification of the tree and its reconciliation *)

Init ==
  /\ files = INITIAL_FILES
  /\ activeFileId = NULL
  /\ openFiles = << >>
  /\ creating = {}
  /\ clock = 0
  /\ syncCallbacks = FALSE
  /\ sandboxRef = FALSE
  /\ remote = {}
  /\ shellCount = 0
  /\ lastOp = OtherOp
  /\ pushPc = "idle"
  /\ pushFiles = << >>
  /\ pushIdx = 0
  /\ pushCalls = << >>
  /\ pushResult = FALSE
  /\ isSyncing = FALSE
  /\ watching = FALSE
  /\ lastFilesHash = << >>
  /\ pulling = << >>
  /\ autoSync = TRUE
  /\ sessions = << >>
  /\ timers = {}
  /\ syncDebounceRef = 0
  /\ timerCount = 0
  /\ isInitializing = 0
  /\ initTimer = 0
  /\ connects = 0
  /\ killing = FALSE
  /\ checking = << >>
  /\ listeners = << >>
  /\ reported = {}
  /\ walk = [pc |-> "idle"]
  /\ activeTerminalId = 0

\* FileTree's creation form: below the root or a folder of the tree
Create == \E parentId \in FolderIds, name \in Names, type \in {"file", "folder"} :
            createFile(parentId, name, type)
CreateResume == \E id \in creating : createFileResume(id)
\* CodeEditor: onChange(file.id, value) for the active file
Update == \E c \in EditContents : HasId(files, activeFileId) /\ updateFileContent(activeFileId, c)
\* FileTree.handleItemClick on a folder
Toggle == \E id \in FolderIds : toggleFolder(id)
\* App.handleStartCreating below a folder other than the root
Expand == \E id \in FolderIds \ {"root"} : expandFolder(id)
\* no caller in the repository: any id of the tree, the root's included
Delete == \E id \in NodeIds : deleteFileItem(id)
\* FileTree.handleItemClick on a file
Open == \E id \in FileIds : openFile(id)
\* the close button of a tab; App renders a tab only for an id found in files
Close == \E id \in Range(openFiles) \cap NodeIds : closeFile(id)
\* a click on a tab
SetActive == \E id \in Range(openFiles) \cap NodeIds : setActiveFileId(id)
Shell ==
  \E parts \in ShellPaths :
    \/ \E c \in ShellContents : ShellWrite(parts, c)
    \/ ShellMkdir(parts)
    \/ ShellRemove(parts)

\* the tree alone, before a sandbox is connected
NextTree ==
  \/ Create
  \/ Update
  \/ Toggle
  \/ Expand
  \/ Delete
  \/ Open
  \/ Close
  \/ SetActive

SpecTree == Init /\ [][NextTree]_vars

\* the tree, a connected sandbox whose files a shell changes, and the pulls
Next ==
  \/ Create
  \/ CreateResume
  \/ createSandbox
  \/ Shell
  \/ handlePullFromSandbox
  \/ pullAndMerge
  \/ mergeAgain

Spec == Init /\ [][Next]_vars

----------------------------------------------------------------------------
(* useE2BSandbox.ts: push *)

\* buildPath without the walk up the parents
buildPathNameOnly(file, allFiles) == BasePath \o "/" \o file.name

\* buildPath inside syncLocalToSandbox, basePath = '/home/user'
buildPath(file, allFiles) ==
  BasePath \o "/" \o Join(WalkParents(file.parentId, <<file.name>>, allFiles), "/")

\* sortedFiles without the sort
sortedFilesUnsorted(fileList) == SelectSeq(fileList, LAMBDA f : f.id # "root")

\* [...files].filter(f => f.id !== 'root').sort(folders first); the sort is stable
sortedFiles(fileList) ==
  LET nonRoot == SelectSeq(fileList, LAMBDA f : f.id # "root")
  IN SelectSeq(nonRoot, LAMBDA f : f.type = "folder")
     \o SelectSeq(nonRoot, LAMBDA f : f.type # "folder")

Call(op, path, content, outcome) ==
  [op |-> op, path |-> path, content |-> content, outcome |-> outcome]

\* handlePushToSandbox up to the first await of syncLocalToSandbox(getAllFiles()); its
\* button is disabled while isSyncing
pushStart ==
  /\ pushPc # "running"
  /\ sandboxRef => ~isSyncing
  /\ pushFiles' = files
  /\ pushCalls' = << >>
  /\ pushIdx' = 1
  /\ IF ~sandboxRef
     THEN /\ pushPc' = "done"
          /\ pushResult' = FALSE
          /\ UNCHANGED isSyncing
     ELSE IF sortedFiles(files) = << >>
     THEN /\ pushPc' = "done"
          /\ pushResult' = TRUE
          /\ isSyncing' = FALSE
     ELSE /\ pushPc' = "running"
          /\ pushResult' = FALSE
          /\ isSyncing' = TRUE
  /\ lastOp' = OtherOp
  /\ UNCHANGED <<treeVars, linkVars, remote, shellCount, sideVars>>

\* one iteration of the for loop: the remote call for sortedFiles[pushIdx] and its
\* outcome; a rejected write leaves the loop through the outer catch. After a
\* disconnect sandboxRef.current is null and the call throws before it is issued
pushStep(failed) ==
  /\ pushPc = "running"
  /\ LET sorted == sortedFiles(pushFiles)
         file == sorted[pushIdx]
         fullPath == buildPath(file, pushFiles)
         last == pushIdx = Len(sorted)
     IN IF file.type = "folder"
        THEN LET outcome == IF failed \/ ~sandboxRef THEN "error"
                            ELSE MakeDirOutcome(remote, fullPath)
             IN /\ remote' = IF outcome = "ok" THEN RemoteMakeDir(remote, fullPath) ELSE remote
                /\ pushCalls' = Append(pushCalls, Call("makeDir", fullPath, "", outcome))
                /\ pushIdx' = pushIdx + 1
                /\ pushPc' = IF last THEN "done" ELSE "running"
                /\ pushResult' = last
                /\ isSyncing' = IF last THEN FALSE ELSE isSyncing
        ELSE IF IsDefined(file.content)
        THEN LET outcome == IF failed \/ ~sandboxRef THEN "error"
                            ELSE WriteOutcome(remote, fullPath)
             IN /\ remote' = IF outcome = "ok"
                             THEN RemoteWrite(remote, fullPath, file.content[1]) ELSE remote
                /\ pushCalls' = Append(pushCalls,
                                       Call("write", fullPath, file.content[1], outcome))
                /\ pushIdx' = pushIdx + 1
                /\ pushPc' = IF last \/ outcome # "ok" THEN "done" ELSE "running"
                /\ pushResult' = (last /\ outcome = "ok")
                /\ isSyncing' = IF last \/ outcome # "ok" THEN FALSE ELSE isSyncing
        ELSE /\ pushIdx' = pushIdx + 1
             /\ pushPc' = IF last THEN "done" ELSE "running"
             /\ pushResult' = last
             /\ isSyncing' = IF last THEN FALSE ELSE isSyncing
             /\ UNCHANGED <<remote, pushCalls>>
  /\ lastOp' = OtherOp
  /\ UNCHANGED <<treeVars, linkVars, shellCount, pushFiles, sideVars>>

PushStep == \E failed \in BOOLEAN : pushStep(failed)

\* the tree, a connected sandbox and pushes of the whole tree
NextPush ==
  \/ Create
  \/ CreateResume
  \/ Update
  \/ createSandbox
  \/ Shell
  \/ pushStart
  \/ PushStep

SpecPush == Init /\ [][NextPush]_vars

----------------------------------------------------------------------------
(* useE2BSandbox.ts: the file watcher. lastFilesHashRef.current is a Map; it *)
(* is kept as the sequence of its entries in insertion order.                *)

MapHas(map, key) == \E i \in 1..Len(map) : map[i].path = key

MapGet(map, key) == map[CHOOSE i \in 1..Len(map) : map[i].path = key].hash

\* Map.set: a key already present keeps its place
MapSet(map, key, value) ==
  IF MapHas(map, key)
  THEN [i \in 1..Len(map) |-> IF map[i].path = key THEN [path |-> key, hash |-> value]
                              ELSE map[i]]
  ELSE Append(map, [path |-> key, hash |-> value])

\* file.content ? file.content.length : (file.isDir ? 0 : -1)
Hash(file) ==
  IF IsDefined(file.content) /\ file.content[1] # "" THEN Len(file.content[1])
  ELSE IF file.isDir THEN 0 ELSE -1

FileChangeEvent(type, path, isDirectory) ==
  [type |-> type, path |-> path, isDirectory |-> isDirectory]

RECURSIVE CheckLoop(_, _, _, _, _)
\* the for loop of checkForChanges over the listing, from listing[k] on
CheckLoop(listing, k, last, currentHash, events) ==
  IF k > Len(listing) THEN [currentHash |-> currentHash, events |-> events]
  ELSE LET file == listing[k]
           hash == Hash(file)
           notified ==
             IF ~MapHas(last, file.path)
             THEN <<FileChangeEvent("created", file.path, file.isDir)>>
             ELSE IF MapGet(last, file.path) # hash
                  THEN <<FileChangeEvent("modified", file.path, file.isDir)>>
                  ELSE << >>
       IN CheckLoop(listing, k + 1, last, MapSet(currentHash, file.path, hash),
                    events \o notified)

\* the loop over the stored map that forgets to report
DeletedLoopSilent(last, k, currentHash) == << >>

RECURSIVE DeletedLoop(_, _, _)
\* the for loop of checkForChanges over lastFilesHashRef.current, from entry k on
DeletedLoop(last, k, currentHash) ==
  IF k > Len(last) THEN << >>
  ELSE (IF ~MapHas(currentHash, last[k].path)
        THEN <<FileChangeEvent("deleted", last[k].path, FALSE)>>
        ELSE << >>)
       \o DeletedLoop(last, k + 1, currentHash)

\* one run of checkForChanges, its listing taken as one snapshot of the remote;
\* listAllFiles catches a rejected files.list itself, so the try block completes
checkForChanges(failing) ==
  /\ watching
  /\ sandboxRef
  /\ LET listing == listAllFiles(remote, BasePath, << >>, failing)
         looped == CheckLoop(listing, 1, lastFilesHash, << >>, << >>)
         events == looped.events \o DeletedLoop(lastFilesHash, 1, looped.currentHash)
     IN /\ lastFilesHash' = looped.currentHash
        /\ lastOp' = [op |-> "checkForChanges", last |-> lastFilesHash,
                      listing |-> listing, failing |-> failing, events |-> events]
  /\ UNCHANGED <<treeVars, linkVars, pushVars, remote, shellCount, walkVars, focusVars, watching,
                 termVars, pulling, initVars, pollVars>>

\* a tick of the interval, or the initial check
CheckTick == \E failing \in SUBSET ListedPaths(remote) : checkForChanges(failing)

NextWatch ==
  \/ Create
  \/ CreateResume
  \/ Update
  \/ createSandbox
  \/ Shell
  \/ CheckTick

SpecWatch == Init /\ [][NextWatch]_vars

----------------------------------------------------------------------------
(* useE2BSandbox.ts: the file watcher with its awaits, its subscribers and the *)
(* disconnect. A run of checkForChanges is two steps: up to the moment it has  *)
(* its listing, and from there to the end.                                     *)

\* notifyFileChange to the first listener only
notifyFileChangeFirst(subs, event) ==
  IF subs = << >> THEN << >> ELSE <<[cb |-> subs[1], event |-> event]>>

\* notifyFileChange: the calls forEach makes, in order
notifyFileChange(subs, event) == [i \in 1..Len(subs) |-> [cb |-> subs[i], event |-> event]]

RECURSIVE NotifyAll(_, _)
\* the calls of notifyFileChange one run of checkForChanges makes
NotifyAll(subs, events) ==
  IF events = << >> THEN << >>
  ELSE notifyFileChange(subs, Head(events)) \o NotifyAll(subs, Tail(events))

\* the interval's tick or the initial check, up to the listing
checkForChangesBegin ==
  /\ watching
  /\ sandboxRef
  /\ Len(checking) < MaxChecks
  /\ \E failing \in SUBSET ListedPaths(remote) :
       checking' = Append(checking, [listing |-> listAllFiles(remote, BasePath, << >>, failing),
                                     failing |-> failing, conn |-> connects])
  /\ lastOp' = OtherOp
  /\ UNCHANGED <<treeVars, linkVars, pushVars, remote, shellCount, walkVars, focusVars, watchVars, termVars,
                 pulling, initVars, connects, killing, listeners, reported>>

EventPaths(events, type) ==
  {events[k].path : k \in {j \in 1..Len(events) : events[j].type = type}}

\* checkForChanges from its listing on: the two loops and the store
checkForChangesEnd(i) ==
  /\ LET run == checking[i]
         looped == CheckLoop(run.listing, 1, lastFilesHash, << >>, << >>)
         events == looped.events \o DeletedLoop(lastFilesHash, 1, looped.currentHash)
         seenGone == IF run.conn = connects /\ run.failing = {}
                     THEN EventPaths(events, "deleted") ELSE {}
     IN /\ lastFilesHash' = looped.currentHash
        /\ reported' = (reported \ seenGone) \cup EventPaths(events, "created")
        /\ lastOp' = [op |-> "checkForChangesEnd", last |-> lastFilesHash,
                      listing |-> run.listing, failing |-> run.failing, conn |-> run.conn,
                      stale |-> run.conn # connects,
                      events |-> events, stopped |-> ~watching, connected |-> sandboxRef,
                      listeners |-> listeners, delivered |-> NotifyAll(listeners, events),
                      reported |-> reported]
  /\ checking' = [k \in 1..(Len(checking) - 1) |->
                    IF k < i THEN checking[k] ELSE checking[k + 1]]
  /\ UNCHANGED <<treeVars, linkVars, pushVars, remote, shellCount, walkVars, focusVars, watching, termVars,
                 pulling, initVars, connects, killing, listeners>>

CheckEnd == \E i \in 1..Len(checking) : checkForChangesEnd(i)

stopFileWatcher ==
  /\ watching' = FALSE
  /\ lastFilesHash' = << >>

\* disconnectSandbox up to its await of sandbox.kill()
disconnectSandbox ==
  /\ sandboxRef
  /\ ~killing
  /\ stopFileWatcher
  /\ killing' = TRUE
  /\ lastOp' = OtherOp
  /\ UNCHANGED <<treeVars, linkVars, pushVars, remote, shellCount, walkVars, focusVars, termVars, pulling,
                 initVars, connects, checking, listeners, reported>>

\* disconnectSandbox after the await, and the cleanup of App's subscription effect
\* that runs once isConnected is false
disconnectResume ==
  /\ killing
  /\ killing' = FALSE
  /\ sandboxRef' = FALSE
  /\ listeners' = unsubscribe(listeners, "app")
  /\ sessions' = [s \in 1..Len(sessions) |->
                    [sessions[s] EXCEPT !.routed = FALSE,
                                        !.pty = IF @ = "alive" THEN "dead" ELSE @]]
  /\ lastOp' = OtherOp
  /\ UNCHANGED <<treeVars, syncCallbacks, pushVars, remote, shellCount, walkVars, focusVars, watchVars,
                 autoSync, timers, syncDebounceRef, timerCount,
                 pulling, initVars, connects, checking, reported>>

\* a second subscriber; the repository has App's only
subscribe ==
  /\ Len(listeners) < MaxSubs
  /\ listeners' = onFileChange(listeners, "cb")
  /\ lastOp' = OtherOp
  /\ UNCHANGED <<treeVars, linkVars, pushVars, remote, shellCount, walkVars, focusVars, watchVars, termVars,
                 pulling, initVars, connects, killing, checking, reported>>

unsubscribeCb ==
  /\ "cb" \in Range(listeners)
  /\ listeners' = unsubscribe(listeners, "cb")
  /\ lastOp' = OtherOp
  /\ UNCHANGED <<treeVars, linkVars, pushVars, remote, shellCount, walkVars, focusVars, watchVars, termVars,
                 pulling, initVars, connects, killing, checking, reported>>

NextPoll ==
  \/ Create
  \/ CreateResume
  \/ createSandbox
  \/ checkForChangesBegin
  \/ CheckEnd
  \/ disconnectSandbox
  \/ disconnectResume
  \/ subscribe
  \/ unsubscribeCb

SpecPoll == Init /\ [][NextPoll]_vars

\* a push and the pulls that the Terminal's sync button starts
NextSync ==
  \/ Create
  \/ CreateResume
  \/ createSandbox
  \/ pushStart
  \/ PushStep
  \/ handlePullBegin
  \/ PullEnd

SpecSync == Init /\ [][NextSync]_vars

\* FileTree's input hands over any name that is not blank; typed before a sandbox
\* is connected
CreateOffline ==
  /\ ~sandboxRef
  /\ \E parentId \in FolderIds, name \in Names \cup NestedNames, type \in {"file", "folder"} :
       createFile(parentId, name, type)

UpdateOffline == ~sandboxRef /\ Update

\* the push button pressed while the sandbox holds nothing
pushOntoEmpty == remote = {} /\ pushStart

\* the pull button pressed once the push has returned
pullAfterPush == pushPc = "done" /\ pullBack

\* a tree built locally, pushed to a new sandbox and pulled back
NextRound ==
  \/ CreateOffline
  \/ UpdateOffline
  \/ createSandbox
  \/ pushOntoEmpty
  \/ PushStep
  \/ pullAfterPush

SpecRound == Init /\ [][NextRound]_vars

\* C38: while a push or a pull is in flight isSyncing is true; it is false only when
\* none is in flight.
C38_FlagCoversFlight == (pushPc = "running" \/ pulling # << >>) => isSyncing

\* C36: the syncing flag excludes nothing: while a push is in flight a pull can
\* start, and with both in flight each can take its next step, which leaves the
\* other one's progress as it was
C36_NoExclusion ==
  /\ (pushPc = "running" /\ sandboxRef /\ Len(pulling) < MaxInFlight)
        => ENABLED handlePullBegin
  /\ (pushPc = "running" /\ pulling # << >>)
        => /\ ENABLED PushStep
           /\ clock < MaxClock => ENABLED PullEnd

C36_Witness == pushPc = "running" /\ pushIdx > 1 /\ pulling # << >> /\ isSyncing

----------------------------------------------------------------------------
(* The tabs: the tree's operations on files with the sandbox connected or not, *)
(* and the reconciliations that rewrite the tree under them                    *)

NextTabs ==
  \/ Create
  \/ CreateResume
  \/ Open
  \/ Close
  \/ SetActive
  \/ Delete
  \/ createSandbox
  \/ Shell
  \/ handlePullFromSandbox
  \/ pullAndMerge

SpecTabs == Init /\ [][NextTabs]_vars

----------------------------------------------------------------------------
(* The editor at work while pulls are in flight *)

NextEdit ==
  \/ Create
  \/ CreateResume
  \/ Update
  \/ createSandbox
  \/ Shell
  \/ handlePullBegin
  \/ PullEnd

SpecEdit == Init /\ [][NextEdit]_vars

\* the editor at work while sandboxes are connected and disconnected
NextEditLink ==
  \/ Create
  \/ CreateResume
  \/ Update
  \/ createSandbox
  \/ disconnectSandbox
  \/ disconnectResume
  \/ Shell
  \/ handlePullBegin
  \/ PullEnd

SpecEditLink == Init /\ [][NextEditLink]_vars

----------------------------------------------------------------------------
(* Terminal: sessions, the auto-sync switch and the debounce timer. A timeout *)
(* is a record of the runtime: its id, the milliseconds left, and whether     *)
(* autoSync was off when it was set.                                          *)

DebounceMs == 1500

\* a session as createNewTerminal makes it. listed: it is in the terminals state; xterm:
\* "none", "live" (in xtermInstancesRef) or "disposed"; autoSync: what the triggerSync its
\* output callback calls closed over; pty: the remote PTY, "none", "alive" or "dead";
\* routed: terminalsRef of useE2BSandbox has its entry; spawn: initializeTerminal's await
\* of onCreateTerminal, "none", "pending" or "done"; spawnCalls: calls of pty.create;
\* close: "kill" while handleCloseTerminal awaits pty.kill, else "none"; active: the
\* activeTerminalId that handleCloseTerminal closed over;
\* log: what handleCloseTerminal has done for it, in order
NewSession ==
  [listed |-> TRUE, isReady |-> FALSE, xterm |-> "none", autoSync |-> FALSE,
   pty |-> "none", routed |-> FALSE, spawn |-> "none", spawnCalls |-> 0,
   close |-> "none", active |-> 0, log |-> << >>]

\* the + button, or the effect that creates the first terminal; the isInitializing
\* effect then sets its 50 ms timeout, clearing the one it had set before
createNewTerminal ==
  /\ sandboxRef
  /\ Len(sessions) < MaxTerminals
  /\ sessions' = Append(sessions, NewSession)
  /\ activeTerminalId' = Len(sessions) + 1
  /\ isInitializing' = Len(sessions) + 1
  /\ initTimer' = Len(sessions) + 1
  /\ lastOp' = OtherOp
  /\ UNCHANGED <<treeVars, linkVars, pushVars, remote, shellCount, walkVars, watchVars,
                 pulling, pollVars, autoSync, timers, syncDebounceRef, timerCount>>

\* the timeout of the isInitializing effect: initializeTerminal up to its await of
\* onCreateTerminal. createTerminal calls pty.create if a sandbox is connected; ok is
\* whether the PTY starts. Without a sandbox it returns null at once and initializeTerminal
\* runs to its end. The output callback calls the triggerSync of this render.
initializeTerminal(s) ==
  /\ initTimer = s
  /\ IF ~sessions[s].listed \/ sessions[s].xterm = "live"
     THEN /\ initTimer' = 0
          /\ UNCHANGED <<sessions, isInitializing>>
     ELSE IF ~sandboxRef
     THEN /\ sessions' = [sessions EXCEPT ![s] =
                            [sessions[s] EXCEPT !.xterm = "live", !.autoSync = autoSync,
                                                !.spawn = "done"]]
          /\ isInitializing' = 0
          /\ initTimer' = 0
     ELSE /\ \E ok \in BOOLEAN :
               sessions' = [sessions EXCEPT ![s] =
                              [sessions[s] EXCEPT
                                 !.xterm = "live",
                                 !.autoSync = autoSync,
                                 !.spawn = "pending",
                                 !.spawnCalls = @ + 1,
                                 !.pty = IF ok THEN "alive" ELSE @]]
          /\ initTimer' = 0
          /\ UNCHANGED isInitializing
  /\ lastOp' = OtherOp
  /\ UNCHANGED <<treeVars, linkVars, pushVars, remote, shellCount, walkVars, focusVars, watchVars, pulling, pollVars,
                 autoSync, timers, syncDebounceRef, timerCount>>

InitializeTerminal == \E s \in 1..Len(sessions) : initializeTerminal(s)

\* initializeTerminal after its await: createTerminal has stored the routing entry if
\* pty.create resolved; setTerminals marks the session ready; setIsInitializing(null),
\* upon which the effect's cleanup clears the timeout it had set
initializeTerminalResume(s) ==
  /\ sessions[s].spawn = "pending"
  /\ LET terminal == sessions[s].pty = "alive"
     IN sessions' = [sessions EXCEPT ![s] =
                       [sessions[s] EXCEPT
                          !.spawn = "done",
                          !.routed = terminal \/ @,
                          !.isReady = (terminal /\ sessions[s].listed) \/ @]]
  /\ isInitializing' = 0
  /\ initTimer' = 0
  /\ lastOp' = OtherOp
  /\ UNCHANGED <<treeVars, linkVars, pushVars, remote, shellCount, walkVars, focusVars, watchVars, pulling, pollVars,
                 autoSync, timers, syncDebounceRef, timerCount>>

InitializeResume == \E s \in 1..Len(sessions) : initializeTerminalResume(s)

\* the auto-sync button: setAutoSync(!autoSync)
\* triggerSync and with it initializeTerminal are made anew, so the isInitializing effect
\* runs again: it clears its timeout and sets one for the session still initializing
toggleAutoSync ==
  /\ autoSync' = ~autoSync
  /\ initTimer' = isInitializing
  /\ lastOp' = OtherOp
  /\ UNCHANGED <<treeVars, linkVars, pushVars, remote, shellCount, walkVars, focusVars, watchVars, pulling, pollVars,
                 sessions, timers, syncDebounceRef, timerCount, isInitializing>>

\* triggerSync without its clearTimeout
clearTimeoutNever(pending, ref) == pending

\* clearTimeout(syncDebounceRef.current)
clearTimeout(pending, ref) == {t \in pending : t.id # ref}

\* triggerSync as closed over by the output callback of session s
triggerSync(closedOver, s) ==
  IF ~closedOver
  THEN UNCHANGED <<timers, syncDebounceRef, timerCount>>
  ELSE /\ timerCount < MaxTimers
       /\ timers' = clearTimeout(timers, syncDebounceRef)
                      \cup {[id |-> timerCount + 1, left |-> DebounceMs, off |-> ~autoSync,
                              by |-> s]}
       /\ syncDebounceRef' = timerCount + 1
       /\ timerCount' = timerCount + 1

\* a chunk the PTY of session s emits. pty.create's onData looks the session up in
\* terminalsRef and calls its dataCallback: xterm.write, then the prompt patterns and
\* triggerSync on a match. What xterm.write does on a disposed terminal is not defined by
\* the repository: it throws or it returns.
onData(s, hasPrompt) ==
  /\ sessions[s].pty = "alive"
  /\ \E throws \in (IF sessions[s].xterm = "disposed" THEN BOOLEAN ELSE {FALSE}) :
       LET routed == sessions[s].routed
           written == routed /\ sessions[s].xterm = "live"
           scanned == routed /\ ~throws
       IN /\ IF scanned /\ hasPrompt
             THEN triggerSync(sessions[s].autoSync, s)
             ELSE UNCHANGED <<timers, syncDebounceRef, timerCount>>
          /\ lastOp' = [op |-> IF scanned /\ hasPrompt THEN "promptMatch" ELSE "onData",
                        session |-> s, autoSync |-> autoSync,
                        closedOver |-> sessions[s].autoSync,
                        routed |-> routed, written |-> written, scanned |-> scanned,
                        surface |-> IF written THEN s ELSE 0,
                        cancelled |-> {t.by : t \in timers \ clearTimeout(timers, syncDebounceRef)},
                        closing |-> (\/ ~sessions[s].listed
                                     \/ sessions[s].xterm = "disposed"
                                     \/ sessions[s].close # "none")]
  /\ UNCHANGED <<treeVars, linkVars, pushVars, remote, shellCount, walkVars, focusVars, watchVars, pulling, pollVars,
                 autoSync, sessions, initVars>>

\* output of a session that ends in a prompt
PromptMatch == \E s \in 1..Len(sessions) : onData(s, TRUE)

\* output of a session that does not
Output == \E s \in 1..Len(sessions) : onData(s, FALSE)

\* the updater handleCloseTerminal hands to setTerminals, for the active id: after is
\* the list without session s, closedOver the activeTerminalId of the render whose
\* handler was called
activeAfterClose(closedOver, s, after) ==
  LET newTerminals == {k \in 1..Len(after) : after[k].listed}
  IN IF closedOver = s /\ newTerminals # {}
     THEN CHOOSE k \in newTerminals : \A j \in newTerminals : j <= k
     ELSE IF newTerminals = {} THEN 0 ELSE activeTerminalId

\* handleCloseTerminal: the xterm instance, if there is one, is disposed; closeTerminal
\* issues pty.kill if it finds the routing entry, and handleCloseTerminal awaits it;
\* if not, closeTerminal returns at once and the session leaves the terminals state
handleCloseTerminal(s) ==
  /\ sessions[s].listed
  /\ sessions[s].close = "none"
  /\ Cardinality({k \in 1..Len(sessions) : sessions[k].listed}) > 1
  /\ LET instance == sessions[s].xterm = "live"
         terminalInfo == sandboxRef /\ sessions[s].routed
         disposed == [sessions[s] EXCEPT
                        !.xterm = IF instance THEN "disposed" ELSE @,
                        !.log = @ \o (IF instance THEN <<"dispose">> ELSE << >>)]
         after == IF terminalInfo
                  THEN [disposed EXCEPT !.close = "kill", !.active = activeTerminalId,
                                        !.log = @ \o <<"kill">>]
                  ELSE [disposed EXCEPT !.listed = FALSE, !.log = @ \o <<"removed">>]
     IN /\ sessions' = [sessions EXCEPT ![s] = after]
        /\ activeTerminalId' = IF terminalInfo THEN activeTerminalId
                               ELSE activeAfterClose(activeTerminalId, s, sessions')
        /\ lastOp' = IF terminalInfo THEN OtherOp
                     ELSE [op |-> "handleCloseTerminal", session |-> s, log |-> after.log,
                           spawned |-> sessions[s].spawnCalls > 0,
                           active |-> activeTerminalId, switched |-> FALSE]
  /\ UNCHANGED <<treeVars, linkVars, pushVars, remote, shellCount, walkVars, watchVars,
                 pulling, pollVars, autoSync, timers, syncDebounceRef, timerCount, initVars>>

CloseTerminal == \E s \in 1..Len(sessions) : handleCloseTerminal(s)

\* handleCloseTerminal after its await of pty.kill: closeTerminal has deleted the routing
\* entry if pty.kill resolved (ok); the session leaves the terminals state
handleCloseTerminalResume(s, ok) ==
  /\ sessions[s].close = "kill"
  /\ LET after == [sessions[s] EXCEPT
                     !.pty = IF ok THEN "dead" ELSE @,
                     !.routed = IF ok THEN FALSE ELSE @,
                     !.close = "none",
                     !.listed = FALSE,
                     !.log = @ \o (IF ok THEN <<"killed">> ELSE <<"killFailed">>)
                               \o <<"removed">>]
     IN /\ sessions' = [sessions EXCEPT ![s] = after]
        /\ activeTerminalId' = activeAfterClose(sessions[s].active, s, sessions')
        /\ lastOp' = [op |-> "handleCloseTerminal", session |-> s, log |-> after.log,
                      spawned |-> sessions[s].spawnCalls > 0,
                      active |-> activeTerminalId,
                      switched |-> activeTerminalId # sessions[s].active]
  /\ UNCHANGED <<treeVars, linkVars, pushVars, remote, shellCount, walkVars, watchVars,
                 pulling, pollVars, autoSync, timers, syncDebounceRef, timerCount, initVars>>

\* a click on the tab of a session in the list
setActiveTerminalId(s) ==
  /\ sessions[s].listed
  /\ activeTerminalId # s
  /\ activeTerminalId' = s
  /\ lastOp' = OtherOp
  /\ UNCHANGED <<treeVars, linkVars, pushVars, remote, shellCount, walkVars, watchVars,
                 pulling, pollVars, termVars, initVars>>

SwitchTerminal == \E s \in 1..Len(sessions) : setActiveTerminalId(s)

CloseResume == \E s \in 1..Len(sessions), ok \in BOOLEAN : handleCloseTerminalResume(s, ok)

\* a resize of the window as it reaches session s: handleResize calls onResize for
\* every xterm instance, and resizeTerminal issues pty.resize if it finds the sandbox
\* and the routing entry
resizeTerminal(s) ==
  /\ sessions[s].xterm = "live"
  /\ lastOp' = [op |-> "resizeTerminal", session |-> s,
                issued |-> sandboxRef /\ sessions[s].routed]
  /\ UNCHANGED <<treeVars, linkVars, pushVars, remote, shellCount, walkVars, focusVars, watchVars, pulling, pollVars,
                 termVars, initVars>>

Resize == \E s \in 1..Len(sessions) : resizeTerminal(s)

\* time passes; a timeout that is due runs before more time passes
Tick ==
  /\ timers # {}
  /\ \A t \in timers : t.left > 0
  /\ timers' = {[t EXCEPT !.left = @ - TickMs] : t \in timers}
  /\ lastOp' = OtherOp
  /\ UNCHANGED <<treeVars, linkVars, pushVars, remote, shellCount, walkVars, focusVars, watchVars, pulling, pollVars,
                 autoSync, sessions, syncDebounceRef, timerCount, initVars>>

\* handlePullFromSandbox with no sandbox: syncSandboxToLocal returns without an await
\* of the network, and the handler runs to its end
PullOffline ==
  /\ ~sandboxRef
  /\ LET sandboxFiles == syncSandboxToLocal(remote, clock + 1, {})
     IN IF Len(sandboxFiles) > 0
        THEN /\ clock < MaxClock
             /\ replaceWithSandboxFiles(sandboxFiles)
             /\ clock' = clock + 1
        ELSE /\ lastOp' = EmptyPull(sandboxFiles)
             /\ UNCHANGED <<files, openFiles, activeFileId, creating, clock>>
  /\ UNCHANGED <<linkVars, pushVars, remote, shellCount, walkVars, focusVars, watchVars, pulling, pollVars>>

\* the timeout's callback: onCommandComplete()
timerFire(t) ==
  /\ t.left <= 0
  /\ timers' = timers \ {t}
  /\ IF sandboxRef THEN PullBegin ELSE PullOffline
  /\ UNCHANGED <<autoSync, sessions, syncDebounceRef, timerCount, initVars>>

TimerFire == \E t \in timers : timerFire(t)

NextTerm ==
  \/ createSandbox
  \/ createNewTerminal
  \/ InitializeTerminal
  \/ InitializeResume
  \/ toggleAutoSync
  \/ PromptMatch
  \/ Tick
  \/ TimerFire
  \/ PullEnd

SpecTerm == Init /\ [][NextTerm]_vars

\* the sessions: creation, initialization, output and closing
NextSession ==
  \/ createSandbox
  \/ createNewTerminal
  \/ InitializeTerminal
  \/ InitializeResume
  \/ toggleAutoSync
  \/ PromptMatch
  \/ Output
  \/ CloseTerminal
  \/ CloseResume
  \/ SwitchTerminal

SpecSession == Init /\ [][NextSession]_vars

\* the effect that creates the first session once isConnected is true
autoCreate == sessions = << >> /\ createNewTerminal

\* connecting and disconnecting, with the tree, pushes, and the session the component
\* creates by itself and its timeouts
NextOffline ==
  \/ createSandbox
  \/ disconnectSandbox
  \/ disconnectResume
  \/ Create
  \/ CreateResume
  \/ pushStart
  \/ PushStep
  \/ autoCreate
  \/ InitializeTerminal
  \/ InitializeResume
  \/ PromptMatch
  \/ Resize
  \/ Tick
  \/ TimerFire
  \/ PullEnd

SpecOffline == Init /\ [][NextOffline]_vars

\* the timeout of the isInitializing effect fires unless cleared, and an awaited
\* pty.create settles
SpecSessionFair ==
  /\ Init
  /\ [][NextSession]_vars
  /\ WF_vars(InitializeTerminal)
  /\ WF_vars(InitializeResume)

----------------------------------------------------------------------------
(* Connecting. App.tsx defines handleInitialSync and never calls it: after     *)
(* createSandbox a push starts only from the push button. What runs without a *)
(* request is the continuation of a call already made.                        *)

NextConnect ==
  \/ Create
  \/ CreateResume
  \/ createSandbox
  \/ pushStart
  \/ PushStep
  \/ handlePullFromSandbox

SpecConnect ==
  /\ Init
  /\ [][NextConnect]_vars
  /\ WF_vars(CreateResume)
  /\ WF_vars(PushStep)

----------------------------------------------------------------------------
(* What the specification says of a tree, stated without the code's helpers *)

RECURSIVE AncestorNames(_, _)
\* the names of a node's ancestors, outermost first, the root excluded
AncestorNames(node, tree) ==
  IF node.parentId = NULL \/ node.parentId = "root"
     \/ ~(\E i \in 1..Len(tree) : tree[i].id = node.parentId)
  THEN << >>
  ELSE LET parent == tree[CHOOSE i \in 1..Len(tree) :
                            /\ tree[i].id = node.parentId
                            /\ \A j \in 1..(i - 1) : tree[j].id # node.parentId]
       IN Append(AncestorNames(parent, tree), parent.name)

DerivedPath(node, tree) ==
  BasePath \o "/" \o Join(Append(AncestorNames(node, tree), node.name), "/")

NonRoot(tree) == SelectSeq(tree, LAMBDA n : n.parentId # NULL)

BagOf(s) == [x \in Range(s) |-> Cardinality({i \in 1..Len(s) : s[i] = x})]

CountId(tree, id) == Cardinality({i \in 1..Len(tree) : tree[i].id = id})

RECURSIVE SubtreeIds(_, _)
\* ids, closed under "is a child of"
SubtreeIds(ids, tree) ==
  LET more == ids \cup {tree[i].id : i \in {j \in 1..Len(tree) : tree[j].parentId \in ids}}
  IN IF more = ids THEN ids ELSE SubtreeIds(more, tree)

TreeContent(tree) ==
  BagOf([i \in 1..Len(tree) |-> <<DerivedPath(tree[i], tree), tree[i].type, tree[i].content>>])

----------------------------------------------------------------------------
(* Push *)

PushDone == pushPc = "done"
WriteFailed == \E i \in 1..Len(pushCalls) : pushCalls[i].op = "write" /\ pushCalls[i].outcome # "ok"
AllCallsOk == \A i \in 1..Len(pushCalls) : pushCalls[i].outcome = "ok"

\* C1: during syncLocalToSandbox, when the write of a File node is issued, the makeDir
\* call of every Folder node of the pushed tree (the file's parent among them) has
\* already been issued.
C1_FoldersBeforeFiles ==
  \A i \in 1..Len(pushCalls) :
    pushCalls[i].op = "write" =>
      \A k \in 1..Len(pushFiles) :
        (pushFiles[k].type = "folder" /\ pushFiles[k].parentId # NULL) =>
          \E j \in 1..(i - 1) :
            /\ pushCalls[j].op = "makeDir"
            /\ pushCalls[j].path = DerivedPath(pushFiles[k], pushFiles)

\* a push of a tree that lists a file before a folder has written the file
C1_Witness ==
  /\ \E k \in 1..Len(pushFiles), l \in 1..Len(pushFiles) :
       k < l /\ pushFiles[k].type = "file" /\ pushFiles[l].type = "folder"
  /\ \E i \in 1..Len(pushCalls) : pushCalls[i].op = "write"

\* C2: when the write of one File node fails, syncLocalToSandbox still issues the remote
\* call of every remaining non-root node, and returns false.
C2_BestEffort ==
  (PushDone /\ WriteFailed) =>
    /\ Len(pushCalls) = Len(NonRoot(pushFiles))
    /\ pushResult = FALSE

\* C3: syncLocalToSandbox returns true only if every call it issued returned ok, a
\* makeDir rejected because the directory exists being the one failure it may swallow.
C3_SuccessMeansAllOk ==
  (PushDone /\ pushResult) =>
    \A i \in 1..Len(pushCalls) :
      \/ pushCalls[i].outcome = "ok"
      \/ pushCalls[i].op = "makeDir" /\ pushCalls[i].outcome = "exists"

ExpectedCall(n, tree) ==
  IF n.type = "folder" THEN Call("makeDir", DerivedPath(n, tree), "", "ok")
  ELSE Call("write", DerivedPath(n, tree), n.content[1], "ok")

\* C4: a syncLocalToSandbox in which no call fails has issued exactly one call per
\* non-root node and none for the root: makeDir(path(n)) for a Folder n and
\* write(path(n), content(n)) for a File n, path(n) being the base prefix and the names
\* of n's ancestors and of n joined by "/".
C4_OneCallPerNode ==
  (PushDone /\ pushResult /\ AllCallsOk) =>
    LET nodes == NonRoot(pushFiles)
    IN BagOf(pushCalls) = BagOf([i \in 1..Len(nodes) |-> ExpectedCall(nodes[i], pushFiles)])

\* folder src holding index.ts with content "a": makeDir(src), then write(src/index.ts, "a")
C4_Witness ==
  /\ PushDone
  /\ pushResult
  /\ Len(pushFiles) = 3
  /\ pushCalls = <<Call("makeDir", "/home/user/src", "", "ok"),
                   Call("write", "/home/user/src/index.ts", "a", "ok")>>

----------------------------------------------------------------------------
(* Merge *)

Merged == lastOp.op = "mergeWithSandboxFiles"

MatchesLocal(fresh, sandbox, prev) ==
  \E i \in 1..Len(prev) : DerivedPath(prev[i], prev) = DerivedPath(fresh, sandbox)

\* C5: after mergeWithSandboxFiles, for every fresh File node whose derived path is that
\* of a local node, a node that was at that path is still there under its local id, its
\* content is the fresh node's, and the fresh id was not inserted; every fresh node whose
\* path matched no local node was inserted.
C5_MergeByPath ==
  Merged =>
    LET prev == lastOp.files
        sandbox == lastOp.sandboxFiles
    IN \A k \in 1..Len(sandbox) :
         IF MatchesLocal(sandbox[k], sandbox, prev)
         THEN sandbox[k].type = "file" =>
                /\ \E i \in 1..Len(prev) :
                     /\ DerivedPath(prev[i], prev) = DerivedPath(sandbox[k], sandbox)
                     /\ files[i].id = prev[i].id
                     /\ files[i].content = sandbox[k].content
                /\ CountId(files, sandbox[k].id) = CountId(prev, sandbox[k].id)
         ELSE \E i \in 1..Len(files) : files[i] = sandbox[k]

\* a local file, open and active, whose content the merge replaced by the remote one,
\* in a merge that also inserted a fresh node
C5_Witness ==
  /\ Merged
  /\ \E k \in 1..Len(lastOp.sandboxFiles), i \in 1..Len(lastOp.files) :
       /\ lastOp.sandboxFiles[k].type = "file"
       /\ lastOp.files[i].type = "file"
       /\ DerivedPath(lastOp.files[i], lastOp.files)
            = DerivedPath(lastOp.sandboxFiles[k], lastOp.sandboxFiles)
       /\ lastOp.files[i].content # lastOp.sandboxFiles[k].content
       /\ files[i].content = lastOp.sandboxFiles[k].content
       /\ files[i].id = activeFileId
       /\ files[i].id \in Range(openFiles)

\* C6: merging the same fresh set a second time leaves the tree as the first merge left
\* it: no node more, no content changed.
C6_MergeIdempotent ==
  (Merged /\ lastOp.again) =>
    /\ Len(files) = Len(lastOp.files)
    /\ TreeContent(files) = TreeContent(lastOp.files)

----------------------------------------------------------------------------
(* Invariants of the tree *)

\* C7: the parentId of every non-root node is the id of a Folder node of the tree.
C7_NoOrphans ==
  \A i \in 1..Len(files) :
    files[i].parentId # NULL =>
      \E j \in 1..Len(files) : files[j].id = files[i].parentId /\ files[j].type = "folder"

\* C8: exactly one node has parentId = null; it is the root and a Folder.
C8_OneRoot ==
  /\ Cardinality({i \in 1..Len(files) : files[i].parentId = NULL}) = 1
  /\ \A i \in 1..Len(files) :
       files[i].parentId = NULL => files[i].id = "root" /\ files[i].type = "folder"

\* C9: a node has a content iff it is a File, and an isOpen flag iff it is a Folder.
C9_FieldsByKind ==
  \A i \in 1..Len(files) :
    /\ IsDefined(files[i].content) <=> files[i].type = "file"
    /\ IsDefined(files[i].isOpen) <=> files[i].type = "folder"

Deleted == lastOp.op = "deleteFileItem"

\* C10: deleteFileItem(id) removes the nodes whose id is id or a transitive descendant of
\* it and nothing else, leaves every other node as it was, and leaves no removed id in
\* openFiles or in activeFileId.
C10_DeleteSubtree ==
  Deleted =>
    LET removed == SubtreeIds({lastOp.id}, lastOp.files)
    IN /\ files = SelectSeq(lastOp.files, LAMBDA n : n.id \notin removed)
       /\ Range(openFiles) \cap removed = {}
       /\ activeFileId \notin removed

\* a folder deleted together with the open, active file inside it, another tab remaining
C10_Witness ==
  /\ Deleted
  /\ Cardinality(SubtreeIds({lastOp.id}, lastOp.files)) >= 2
  /\ lastOp.activeFileId \in SubtreeIds({lastOp.id}, lastOp.files) \ {lastOp.id}
  /\ Len(files) >= 1

C12_OpenFilesAreFiles ==
  /\ \A i \in 1..Len(openFiles), j \in 1..Len(openFiles) : openFiles[i] = openFiles[j] => i = j
  /\ \A i \in 1..Len(openFiles) :
       \E k \in 1..Len(files) : files[k].id = openFiles[i] /\ files[k].type = "file"

\* C13: activeFileId is null or an element of openFiles.
C13_ActiveIsOpen == activeFileId = NULL \/ activeFileId \in Range(openFiles)

\* a tab, open and active, kept through a merge that added a node to the tree
C13_Witness ==
  /\ Merged
  /\ Len(files) > Len(lastOp.files)
  /\ Len(openFiles) = 1
  /\ activeFileId \in Range(openFiles)

Replaced == lastOp.op = "replaceWithSandboxFiles"

\* the (derived path, kind, content) entries of the nodes below the root
EntriesOf(tree) ==
  {<<DerivedPath(NonRoot(tree)[i], tree), NonRoot(tree)[i].type, NonRoot(tree)[i].content>> :
     i \in 1..Len(NonRoot(tree))}

DistinctPaths(tree) ==
  \A i, j \in 1..Len(NonRoot(tree)) :
    i # j => DerivedPath(NonRoot(tree)[i], tree) # DerivedPath(NonRoot(tree)[j], tree)

\* the last push ran to its end with no call rejected and pushed the tree that the
\* pull has just replaced
PushedThenPulled ==
  /\ Replaced
  /\ pushPc = "done"
  /\ pushResult
  /\ pushFiles = lastOp.files
  /\ \A i \in 1..Len(pushCalls) : pushCalls[i].outcome # "error"

\* C40: a tree with pairwise distinct derived paths, pushed onto an empty sandbox with
\* every call succeeding and pulled back with the sandbox untouched in between, comes
\* back with the same set of (derived path, kind, content) entries.
C40_RoundTrip ==
  (PushedThenPulled /\ DistinctPaths(pushFiles)) => EntriesOf(files) = EntriesOf(pushFiles)

\* C39: a pull whose result has no entry (nothing below the base directory, the
\* listing of the base directory rejected, or no sandbox) leaves the tree, the open
\* list and the active id as they were and sets the sync status to error; the tree
\* is replaced only by a pull that returned at least one entry.
C39_EmptyPullKeepsTree ==
  /\ (lastOp.op = "handlePullFromSandbox") =>
       /\ lastOp.returned = << >>
       /\ lastOp.syncStatus = "error"
       /\ files = lastOp.files
       /\ openFiles = lastOp.openFiles
       /\ activeFileId = lastOp.activeFileId
  /\ Replaced =>
       /\ Len(files) > 1
       /\ sandboxRef
       /\ remote # {}

\* the listing of the base directory was rejected while a file was open
C39_Witness ==
  /\ lastOp.op = "handlePullFromSandbox"
  /\ sandboxRef
  /\ remote # {}
  /\ Len(files) > 1
  /\ openFiles # << >>
  /\ activeFileId # NULL

\* C14: after handlePullFromSandbox has applied a pull, every file that was open before
\* and whose path is still a file on the remote is open afterwards, and it is the active
\* file if it was before.
C14_PullKeepsTabs ==
  Replaced =>
    \A i \in 1..Len(lastOp.openFiles), n \in 1..Len(lastOp.files) :
      (/\ lastOp.files[n].id = lastOp.openFiles[i]
       /\ IsRemotePath(DerivedPath(lastOp.files[n], lastOp.files))
       /\ IsFileAt(remote, ParsePath(DerivedPath(lastOp.files[n], lastOp.files))))
      => \E k \in 1..Len(files) :
           /\ DerivedPath(files[k], files) = DerivedPath(lastOp.files[n], lastOp.files)
           /\ files[k].id \in Range(openFiles)
           /\ lastOp.activeFileId = lastOp.files[n].id => activeFileId = files[k].id

----------------------------------------------------------------------------
(* The file watcher *)

Checked == lastOp.op = "checkForChanges"

\* the fingerprint map of a listing, as a set of <<path, fingerprint>>
NewMap(listing) == {<<listing[i].path, Hash(listing[i])>> : i \in 1..Len(listing)}

AsPairs(map) == {<<map[i].path, map[i].hash>> : i \in 1..Len(map)}

Paths(pairs) == {e[1] : e \in pairs}

ExpectedEvents(P, N) ==
  {<<"created", p>> : p \in Paths(N) \ Paths(P)}
    \cup {<<"modified", e[1]>> : e \in {x \in N : x[1] \in Paths(P) /\ x \notin P}}
    \cup {<<"deleted", p>> : p \in Paths(P) \ Paths(N)}

\* C19: after a run of checkForChanges whose listing succeeded, with P the map stored
\* before and N the map of the listing, the events emitted are created(p) for each p in
\* N and not in P, modified(p) for each p in both with different fingerprints, deleted(p)
\* for each p in P and not in N, each once and no other, and the stored map is N.
C19_PollerDiff ==
  (Checked /\ lastOp.failing = {}) =>
    LET P == AsPairs(lastOp.last)
        N == NewMap(lastOp.listing)
        emitted == {<<lastOp.events[i].type, lastOp.events[i].path>> : i \in 1..Len(lastOp.events)}
    IN /\ emitted = ExpectedEvents(P, N)
       /\ Len(lastOp.events) = Cardinality(ExpectedEvents(P, N))
       /\ AsPairs(lastFilesHash) = N
       /\ Len(lastFilesHash) = Cardinality(Paths(N))

\* a run that reported one path as deleted and another one as created or modified
C19_Witness ==
  /\ Checked
  /\ lastOp.failing = {}
  /\ \E i \in 1..Len(lastOp.events) : lastOp.events[i].type = "deleted"
  /\ \E i \in 1..Len(lastOp.events) : lastOp.events[i].type # "deleted"

\* the fingerprint stored for a directory is 0, and for nothing else
WasDirectory(last, path) == MapGet(last, path) = 0

\* C37: every event of a run carries isDirectory equal to whether its path is a
\* directory of the sandbox, and for a deleted path to whether it was one when the
\* previous run listed it.
C37_IsDirectoryTrue ==
  Checked =>
    \A i \in 1..Len(lastOp.events) :
      LET event == lastOp.events[i]
      IN event.isDirectory =
           IF event.type = "deleted" THEN WasDirectory(lastOp.last, event.path)
           ELSE IsDirAt(remote, ParsePath(event.path))

\* C20: a run of checkForChanges in which a listing call fails emits no event and leaves
\* the stored fingerprint map as it was.
C20_FailedTickSkipped ==
  (Checked /\ lastOp.failing # {}) =>
    /\ lastOp.events = << >>
    /\ lastFilesHash = lastOp.last

\* C21: once disconnectSandbox has stopped the watcher, the fingerprint map is empty and
\* stays empty, and no event is delivered to a subscriber, until the next connection;
\* also when a run of checkForChanges was awaiting its listing when the watcher stopped.
C21_StoppedStaysEmpty ==
  /\ ~watching => lastFilesHash = << >>
  /\ (lastOp.op = "checkForChangesEnd" /\ lastOp.stopped) => lastOp.delivered = << >>

\* C22: after a reconnect, a run of checkForChanges of the new connection whose listing
\* succeeded leaves every path of its listing reported as created since the connection,
\* and reports no path as created that was already reported and not seen gone since.
C22_CreatedOnce ==
  (/\ lastOp.op = "checkForChangesEnd"
   /\ lastOp.conn > 1
   /\ ~lastOp.stale
   /\ ~lastOp.stopped
   /\ lastOp.failing = {}) =>
    /\ \A k \in 1..Len(lastOp.listing) : lastOp.listing[k].path \in reported
    /\ EventPaths(lastOp.events, "created") \cap lastOp.reported = {}

\* C23: every event checkForChanges emits is delivered once to every subscription held
\* when it is emitted and to no other callback; a callback whose unsubscribe function
\* has been called receives nothing, the other subscriptions receiving every event.
C23_Delivery ==
  lastOp.op = "checkForChangesEnd" =>
    /\ \A e \in Range(lastOp.events), cb \in {"app", "cb"} :
         Cardinality({k \in 1..Len(lastOp.delivered) :
                        lastOp.delivered[k] = [cb |-> cb, event |-> e]})
           = Cardinality({i \in 1..Len(lastOp.listeners) : lastOp.listeners[i] = cb})
    /\ Len(lastOp.delivered) = Len(lastOp.events) * Len(lastOp.listeners)
    /\ ~lastOp.connected => \A k \in 1..Len(lastOp.delivered) : lastOp.delivered[k].cb # "app"

\* events emitted after App's callback was unsubscribed by the disconnect, delivered to
\* the subscriber that remains
C23_Witness ==
  /\ lastOp.op = "checkForChangesEnd"
  /\ ~lastOp.connected
  /\ lastOp.events # << >>
  /\ lastOp.listeners = <<"cb">>
  /\ Len(lastOp.delivered) = Len(lastOp.events)

----------------------------------------------------------------------------
(* Sessions *)

Closed == lastOp.op = "handleCloseTerminal"

Chunk == lastOp.op \in {"onData", "promptMatch"}

\* C24: once handleCloseTerminal has returned, the session has no entry in the routing
\* map, whether pty.kill resolved or rejected; and a chunk that arrives once the close
\* has begun is neither written to a display surface nor run through the prompt
\* patterns.
C24_ClosedIsUnrouted ==
  /\ Closed => ~sessions[lastOp.session].routed
  /\ (Chunk /\ lastOp.closing) => (~lastOp.written /\ ~lastOp.scanned)

Before(log, a, b) == \E i \in 1..Len(log), j \in 1..Len(log) : i < j /\ log[i] = a /\ log[j] = b

\* C25: in every handleCloseTerminal of a session for which a PTY was requested, the
\* display surface is disposed before pty.kill is issued, and the session leaves the
\* session list only after pty.kill has returned.
C25_CloseOrder ==
  (Closed /\ lastOp.spawned) =>
    /\ Before(lastOp.log, "dispose", "kill")
    /\ Before(lastOp.log, "killed", "removed") \/ Before(lastOp.log, "killFailed", "removed")

\* C26: pty.create is called at most once for a session, and every session created is
\* eventually one for which it has been called, unless it was closed before.
C26_EverySessionSpawned ==
  /\ [](\A s \in 1..Len(sessions) : sessions[s].spawnCalls <= 1)
  /\ \A n \in 1..MaxTerminals :
       (Len(sessions) >= n) ~>
         (Len(sessions) >= n /\ (sessions[n].spawnCalls = 1 \/ ~sessions[n].listed))

\* C27: a chunk the PTY emits for a session that is not being closed is written to that
\* session's display surface and run through the prompt patterns, also before pty.create
\* has returned.
C27_OutputRouted ==
  (Chunk /\ ~lastOp.closing) =>
    /\ lastOp.written
    /\ lastOp.scanned
    /\ lastOp.surface = lastOp.session

----------------------------------------------------------------------------
(* useFileSystem.ts: getFilePath one iteration at a time, on any list of nodes. *)
(* Its fileList parameter takes whatever the caller hands over.                 *)

WalkIds == {"a", "b"}

WalkNode(id, parentId, name) ==
  [id |-> id, parentId |-> parentId, name |-> name, type |-> "folder",
   content |-> Undefined, isOpen |-> Def(TRUE)]

\* the lists handed over: the root and two folders whose parents are the root, a
\* folder of the list (itself included) or a node that is not there
WalkTrees ==
  {<<RootItem, WalkNode("a", pa, "src"), WalkNode("b", pb, "lib")>> :
     pa \in {"root", "a", "b", "gone"}, pb \in {"root", "a", "b", "gone"}}

\* pathParts.unshift(name); of a list that grows without end the model keeps the
\* MaxParts entries next to the file's name
Unshift(name, pathParts) ==
  IF Len(pathParts) < MaxParts THEN <<name>> \o pathParts ELSE pathParts

\* getFilePath up to its while loop
getFilePathBegin ==
  /\ walk.pc # "loop"
  /\ \E fileList \in WalkTrees, fileId \in WalkIds \cup {"gone"} :
       walk' = IF ~HasId(fileList, fileId)
               THEN [pc |-> "done", fileList |-> fileList, fileId |-> fileId,
                     currentParentId |-> NULL, pathParts |-> << >>, steps |-> 0,
                     result |-> ""]
               ELSE [pc |-> "loop", fileList |-> fileList, fileId |-> fileId,
                     currentParentId |-> Find(fileList, fileId).parentId,
                     pathParts |-> <<Find(fileList, fileId).name>>, steps |-> 0,
                     result |-> ""]
  /\ lastOp' = OtherOp
  /\ UNCHANGED <<treeVars, linkVars, pushVars, remote, shellCount, watchVars, termVars,
                 pulling, initVars, pollVars, focusVars>>

\* the test of the while loop and one run of its body, or the return
getFilePathStep ==
  /\ walk.pc = "loop"
  /\ IF walk.currentParentId # NULL /\ walk.currentParentId # "root"
     THEN IF HasId(walk.fileList, walk.currentParentId)
          THEN LET parent == Find(walk.fileList, walk.currentParentId)
               IN walk' = [walk EXCEPT !.pathParts = Unshift(parent.name, @),
                                       !.currentParentId = parent.parentId,
                                       !.steps = IF @ < MaxParts THEN @ + 1 ELSE @]
          ELSE walk' = [walk EXCEPT !.pc = "done",
                                    !.result = "/home/user/" \o Join(walk.pathParts, "/")]
     ELSE walk' = [walk EXCEPT !.pc = "done",
                               !.result = "/home/user/" \o Join(walk.pathParts, "/")]
  /\ lastOp' = OtherOp
  /\ UNCHANGED <<treeVars, linkVars, pushVars, remote, shellCount, watchVars, termVars,
                 pulling, initVars, pollVars, focusVars>>

NextWalk ==
  \/ getFilePathBegin
  \/ getFilePathStep

\* a loop that is running keeps running
SpecWalk == Init /\ [][NextWalk]_vars /\ WF_vars(getFilePathStep)

RECURSIVE ChainNames(_, _, _)
\* the names from the root down to the node id, if the root is met within fuel links
ChainNames(tree, id, fuel) ==
  LET node == Find(tree, id)
  IN IF node.parentId = "root" THEN <<<<node.name>>>>
     ELSE IF fuel = 0 \/ ~HasId(tree, node.parentId) THEN << >>
     ELSE LET up == ChainNames(tree, node.parentId, fuel - 1)
          IN IF up = << >> THEN << >> ELSE <<Append(up[1], node.name)>>

\* C31: getFilePath terminates on every list of nodes and every id, and on a list whose
\* parent links lead from the node to the root it returns the names along them.
C31_WalkTerminates ==
  /\ [](walk.pc = "done" /\ HasId(walk.fileList, walk.fileId) =>
          LET chain == ChainNames(walk.fileList, walk.fileId, Len(walk.fileList))
          IN chain # << >> => walk.result = BasePath \o "/" \o Join(chain[1], "/"))
  /\ (walk.pc = "loop") ~> (walk.pc = "done")

----------------------------------------------------------------------------
(* One pull pass *)

\* the tree replaceWithSandboxFiles would set from a pass over the remote as it is
PassTree(listing) ==
  <<RootItem>> \o BuildItems(listing, clock + 1, 1, (BasePath :> "root"), << >>)

C30_ReadFailureKept ==
  \A failing \in SUBSET ReadPaths(remote) :
    LET listing == listAllFiles(remote, BasePath, << >>, failing)
        fresh == Tail(PassTree(listing))
    IN /\ Len(fresh) = Len(listing)
       /\ {listing[k].path : k \in 1..Len(listing)} = {PathStr(e.parts) : e \in remote}
       /\ \A k \in 1..Len(fresh) :
            LET e == EntryAt(remote, ParsePath(listing[k].path))
            IN /\ fresh[k].type = (IF e.isDir THEN "folder" ELSE "file")
               /\ ~e.isDir =>
                    fresh[k].content = Def(IF listing[k].path \in failing THEN ""
                                           ELSE e.content)

\* a pull has replaced the tree; one file's read was rejected and its node is empty
\* while the remote holds text for it, and the other entry of the remote has its node
C30_Witness ==
  /\ Replaced
  /\ Cardinality(remote) > 1
  /\ Len(files) = Cardinality(remote) + 1
  /\ \E k \in 1..Len(files) :
       /\ files[k].type = "file"
       /\ getFilePath(files[k].id, files) \in ReadPaths(remote)
       /\ files[k].content = Def("")
       /\ RemoteRead(remote, getFilePath(files[k].id, files)) # ""

\* C33: the active session is none or a session of the list, and after a close that
\* found the closed session active it is the last session left in the list, or none if
\* none is left; also when the active session was switched while pty.kill was awaited.
C33_ActiveIsListed ==
  /\ \/ activeTerminalId = 0
     \/ activeTerminalId \in 1..Len(sessions) /\ sessions[activeTerminalId].listed
  /\ (Closed /\ lastOp.active = lastOp.session) =>
       LET left == {k \in 1..Len(sessions) : sessions[k].listed}
       IN IF left = {} THEN activeTerminalId = 0
          ELSE activeTerminalId \in left /\ \A j \in left : j <= activeTerminalId

\* C35: in a pull pass, whichever listings and reads reject, a node built from a path
\* directly below the base path has the root as its parent, and a node built from any
\* other path has as its parent the folder built earlier in the pass from the path's
\* directory.
C35_ParentsAssigned ==
  \A failing \in SUBSET (ListedPaths(remote) \cup ReadPaths(remote)) :
    LET listing == listAllFiles(remote, BasePath, << >>, failing)
        fresh == Tail(PassTree(listing))
    IN \A k \in 1..Len(listing) :
         LET parts == ParsePath(listing[k].path)
         IN IF Len(parts) = 1 THEN fresh[k].parentId = "root"
            ELSE \E j \in 1..(k - 1) :
                   /\ ParsePath(listing[j].path) = SubSeq(parts, 1, Len(parts) - 1)
                   /\ fresh[j].type = "folder"
                   /\ fresh[k].parentId = fresh[j].id
                   /\ fresh[j].id # "root"

\* a pull has replaced the tree by a pass that found a file below the base path and a
\* directory with a file in it
C35_Witness ==
  /\ Replaced
  /\ \E r \in 1..Len(files), d \in 1..Len(files), k \in 1..Len(files) :
       /\ files[r].type = "file" /\ files[r].parentId = "root"
       /\ files[d].type = "folder" /\ files[d].parentId = "root" /\ d < k
       /\ files[k].parentId = files[d].id
       /\ files[k].type = "file"
       /\ \A n \in 2..Len(files) : getFilePath(files[n].id, files) \in
                                       {PathStr(e.parts) : e \in remote}

----------------------------------------------------------------------------
(* With no sandbox *)

RemotePaths == {PathStr(p) : p \in ShellPaths}

----------------------------------------------------------------------------
(* Connecting *)

\* C15: once createSandbox has connected a sandbox while the local tree holds nodes
\* other than the root, a syncLocalToSandbox of the tree is eventually started.
C15_InitialPush ==
  (lastOp.op = "createSandbox" /\ Len(files) > 1) ~> (pushPc # "idle")

----------------------------------------------------------------------------
(* Edits and pulls *)

\* the pull applied last had its listing when the editor changed a file that the remote
\* holds, the write of the edit succeeded, and nothing else ran before the pull was applied
EditedDuringPull ==
  /\ Replaced
  /\ lastOp.edited # << >>
  /\ lastOp.edited[1].read
  /\ IsRemotePath(lastOp.edited[1].path)
  /\ IsFileAt(lastOp.edited[1].remote, ParsePath(lastOp.edited[1].path))
  /\ RemoteRead(lastOp.edited[1].remote, lastOp.edited[1].path) = lastOp.edited[1].content

\* C16: when updateFileContent(id, c) ran while a pull was in flight and the pull has
\* been applied, the tree holds content c at the file's path and the remote holds c there.
C16_EditSurvivesPull ==
  EditedDuringPull =>
    /\ \E k \in 1..Len(files) :
         /\ DerivedPath(files[k], files) = lastOp.edited[1].path
         /\ files[k].content = Def(lastOp.edited[1].content)
    /\ IsFileAt(remote, ParsePath(lastOp.edited[1].path))
    /\ RemoteRead(remote, lastOp.edited[1].path) = lastOp.edited[1].content

\* C34: a step that is updateFileContent(id, c) on a file of the tree sets the content
\* of that node to c and leaves every other node, the open files and the active id as
\* they are; with a sandbox connected it issues one remote call, the write of c at the
\* node's derived path, and with none it issues no call and the remote is as it was.
C34_UpdateFrame ==
  [][(/\ lastOp'.op = "updateFileContent"
      /\ \E i \in 1..Len(files) : files[i].id = lastOp'.id /\ files[i].type = "file") =>
       /\ Len(files') = Len(files)
       /\ \A i \in 1..Len(files) :
            files'[i] = IF files[i].id = lastOp'.id
                        THEN [files[i] EXCEPT !.content = Def(lastOp'.content)]
                        ELSE files[i]
       /\ UNCHANGED <<openFiles, activeFileId>>
       /\ sandboxRef =>
            \E i \in 1..Len(files) :
              /\ files[i].id = lastOp'.id
              /\ lastOp'.calls = <<[op |-> "write", path |-> DerivedPath(files[i], files),
                                    content |-> lastOp'.content]>>
       /\ ~sandboxRef => (lastOp'.calls = << >> /\ remote' = remote)
  ]_vars

\* an update has run with a sandbox connected after an earlier one was disconnected,
\* in a tree with another file that keeps its content
C34_Witness ==
  /\ lastOp.op = "updateFileContent"
  /\ lastOp.connected
  /\ Len(lastOp.calls) = 1
  /\ Len(files) > 2
  /\ connects > 1
  /\ \E i \in 1..Len(files) : files[i].id = lastOp.id /\ files[i].content = Def(lastOp.content)
  /\ \E i \in 1..Len(files) : files[i].id # lastOp.id /\ files[i].content = Def("")

----------------------------------------------------------------------------
(* Terminal *)

Matched == lastOp.op = "promptMatch"

\* C17: with auto-sync enabled a prompt match leaves exactly one timeout pending, set to
\* the full debounce interval, and a timeout that is due is the only one pending: one
\* pull per burst, one interval after the burst's last match.
C17_Debounce ==
  /\ (Matched /\ lastOp.autoSync) => \E t \in timers : timers = {t} /\ t.left = DebounceMs
  /\ \A t \in timers : t.left <= 0 => timers = {t}

\* C18: no timeout is set while auto-sync is disabled.
C18_DisabledNeverSchedules == \A t \in timers : ~t.off

====
